---- MODULE Spec2Model ----
(***************************************************************************)
(* Model of lib/ansible/modules/cloud/azure/azure_rm_redis.py:             *)
(* AzureRMRedisCache.exec_module and its helpers populate_results and      *)
(* check_resource_created, run against a Redis management client whose     *)
(* get / create / delete calls succeed or raise.                           *)
(*                                                                         *)
(* Line 283 of the source reads "else if self.state == 'present':", which  *)
(* Python does not accept.  Both repairs ("elif ...", or "else:" with a    *)
(* nested "if") give the same control flow, and that flow is modelled.     *)
(*                                                                         *)
(* Python's None is the string "None"; booleans stored next to None        *)
(* (results['changed']) are the strings "True" and "False".                *)
(***************************************************************************)
EXTENDS Integers, FiniteSets, Sequences, TLC

VARIABLES
    pc,           \* position of the invocation
    check_mode,   \* self.check_mode
    state,        \* self.state: "present" or "absent"
    desired,      \* the remaining module arguments (location, sku, tags, ...)
    to_update,    \* self.to_update
    redis_cache,  \* self.redis_cache
    results,      \* self.results
    count,        \* local count of check_resource_created
    remote,       \* the cache as the provider holds it
    getOutcome,   \* how the initial get ended
    nGet,         \* initial get calls issued by this invocation
    nPoll,        \* get calls issued by check_resource_created
    nSleep,       \* time.sleep calls of check_resource_created
    nCreate,      \* redis.create calls issued by this invocation
    nDelete,      \* redis.delete calls issued by this invocation
    createParams, \* RedisCreateParameters of the last create call
    waited,       \* check_resource_created was called by this invocation
    failMsg,      \* which failure ended the invocation
    invocations,  \* invocations started so far
    prev,         \* summary of the previous invocation
    lastCall,     \* the last call made to the provider and how it ended
    mutated,      \* a create or delete call of this invocation completed
    slept         \* total time passed to time.sleep by this invocation

vars == <<pc, check_mode, state, desired, to_update, redis_cache, results,
          count, remote, getOutcome, nGet, nPoll, nSleep, nCreate, nDelete,
          createParams, waited, failMsg, invocations, prev, lastCall, mutated, slept>>

\* number of invocations of the module that are explored back to back
MaxInvocations == 2

\* the cap test fires one round early
PollCap_Short == 180 - 1

\* the cap test fires one round late
PollCap_Long == 180 + 1

\* attempt cap of the wait loop: "if count == 180"
PollCap == 180

\* delay = 10
delay == 10

\* provisioning states a RedisResource reports
ProvStates == {"Running", "Succeeded", "Failed"}

\* the provider moves a resource out of Running only
ProvNext(s) == IF s = "Running" THEN ProvStates ELSE {s}

\* values of the module arguments of two different plays
DesiredSpecs ==
    { [location |-> "eastus", sku |-> "Premium_P_1", tags |-> "t1",
       redis_configuration |-> "rc1", enable_nonssl_port |-> "False",
       shard_count |-> "2", subnet_id |-> "subnet1", static_ip |-> "10.0.0.4"],
      [location |-> "westus", sku |-> "Standard_C_2", tags |-> "t2",
       redis_configuration |-> "rc2", enable_nonssl_port |-> "True",
       shard_count |-> "3", subnet_id |-> "subnet2", static_ip |-> "10.0.0.5"] }

\* RedisCreateParameters(...) as both create calls of exec_module build it
RedisCreateParameters(d) ==
    [location |-> d.location, sku |-> d.sku, tags |-> d.tags,
     redis_configuration |-> "None", enable_non_ssl_port |-> "None",
     tenant_settings |-> "None", shard_count |-> "None",
     subnet_id |-> "None", static_ip |-> "None"]

\* parameters of a cache that somebody created with every field supplied
FullParameters(d) ==
    [location |-> d.location, sku |-> d.sku, tags |-> d.tags,
     redis_configuration |-> d.redis_configuration,
     enable_non_ssl_port |-> d.enable_nonssl_port,
     tenant_settings |-> "None", shard_count |-> d.shard_count,
     subnet_id |-> d.subnet_id, static_ip |-> d.static_ip]

NoParameters ==
    [location |-> "None", sku |-> "None", tags |-> "None",
     redis_configuration |-> "None", enable_non_ssl_port |-> "None",
     tenant_settings |-> "None", shard_count |-> "None",
     subnet_id |-> "None", static_ip |-> "None"]

\* the provider holds no cache of that name
NoResource == [exists |-> FALSE, provisioning_state |-> "None", params |-> NoParameters]

\* self.redis_cache = None
NoneCache == [exists |-> FALSE, name |-> "None", provisioning_state |-> "None",
              ssl_port |-> "None", params |-> NoParameters, rpc |-> "none"]

\* the RedisResource a get or a create returns; rpc records which call returned it
Resource(r, call) ==
    [exists |-> TRUE, name |-> "cache1", provisioning_state |-> r.provisioning_state,
     ssl_port |-> "6380", params |-> r.params, rpc |-> call]

\* self.results as __init__ builds it
InitResults ==
    [id |-> "None", name |-> "None", location |-> "None", tags |-> "None",
     provisioning_state |-> "None", sku |-> "None", enable_nonssl_port |-> "None",
     changed |-> "None", state |-> "dict()", snapshot_rpc |-> "none"]

\* populate_results: copies the fields of self.redis_cache into self.results
populate_results(res, cache) ==
    [res EXCEPT !.id = "id_" \o cache.name,
                !.name = cache.name,
                !.location = cache.params.location,
                !.tags = cache.params.tags,
                !.provisioning_state = cache.provisioning_state,
                !.sku = cache.params.sku,
                !.enable_nonssl_port = cache.ssl_port,
                !.snapshot_rpc = cache.rpc]

NoPrev == [valid |-> FALSE, pc |-> "idle", check_mode |-> FALSE, state |-> "present",
           desired |-> CHOOSE d \in DesiredSpecs : TRUE, getOutcome |-> "none",
           changed |-> "None", result_state |-> "dict()",
           remote_exists |-> FALSE, remote_params |-> NoParameters]

\* no call has been made to the provider yet
NoCall == [op |-> "none", outcome |-> "ok"]

\* a call to the provider: get, create, delete or poll, and how it ended
Call(op, outcome) == [op |-> op, outcome |-> outcome]

Terminal == {"done", "failed", "crashed"}

Init ==
    /\ pc = "idle"
    /\ check_mode = FALSE
    /\ state = "present"
    /\ desired = CHOOSE d \in DesiredSpecs : TRUE
    /\ to_update = FALSE
    /\ redis_cache = NoneCache
    /\ results = InitResults
    /\ count = 0
    /\ remote \in {NoResource} \cup
                  { [exists |-> TRUE, provisioning_state |-> s, params |-> FullParameters(d)] :
                        s \in ProvStates, d \in DesiredSpecs }
    /\ getOutcome = "none"
    /\ nGet = 0 /\ nPoll = 0 /\ nSleep = 0 /\ nCreate = 0 /\ nDelete = 0
    /\ createParams = NoParameters
    /\ waited = FALSE
    /\ failMsg = "none"
    /\ invocations = 0
    /\ prev = NoPrev
    /\ lastCall = NoCall
    /\ mutated = FALSE
    /\ slept = 0

\* AzureRMModuleBase.fail: reports the failure and ends the module
fail(msg) ==
    /\ pc' = "failed"
    /\ failMsg' = msg

\* an exception that exec_module does not catch leaves it
crash ==
    /\ pc' = "crashed"
    /\ failMsg' = "exception"

\* a new AzureRMRedisCache is built (__init__) and exec_module starts
ExecModule(cm, st, d) ==
    /\ pc \in {"idle"} \cup Terminal
    /\ invocations < MaxInvocations
    /\ invocations' = invocations + 1
    /\ prev' = [valid |-> pc # "idle", pc |-> pc, check_mode |-> check_mode,
                state |-> state, desired |-> desired, getOutcome |-> getOutcome,
                changed |-> results.changed, result_state |-> results.state,
                remote_exists |-> (pc # "idle" /\ remote.exists),
                remote_params |-> IF pc # "idle" THEN remote.params ELSE NoParameters]
    /\ check_mode' = cm
    /\ state' = st
    /\ desired' = d
    /\ to_update' = FALSE
    /\ redis_cache' = NoneCache
    /\ results' = InitResults
    /\ count' = 0
    /\ getOutcome' = "none"
    /\ nGet' = 0 /\ nPoll' = 0 /\ nSleep' = 0 /\ nCreate' = 0 /\ nDelete' = 0
    /\ createParams' = NoParameters
    /\ waited' = FALSE
    /\ failMsg' = "none"
    /\ pc' = "fetch"
    /\ lastCall' = NoCall
    /\ mutated' = FALSE
    /\ slept' = 0
    /\ UNCHANGED remote

\* "Check first if the resource exists": the initial redis.get
FetchExisting ==
    /\ pc = "fetch"
    /\ nGet' = nGet + 1
    /\ \/ /\ remote.exists
          /\ redis_cache' = Resource(remote, "get")
          /\ to_update' = TRUE
          /\ getOutcome' = "found"
          /\ lastCall' = Call("get", "ok")
          /\ pc' = "fetched"
          /\ UNCHANGED failMsg
       \/ \* CloudError: the cache does not exist
          /\ ~remote.exists
          /\ getOutcome' = "notfound"
          /\ lastCall' = Call("get", "clouderror")
          /\ pc' = "fetched"
          /\ UNCHANGED <<redis_cache, to_update, failMsg>>
       \/ \* CloudError of any other kind (authorization, throttling, ...)
          /\ getOutcome' = "clouderror"
          /\ lastCall' = Call("get", "clouderror")
          /\ pc' = "fetched"
          /\ UNCHANGED <<redis_cache, to_update, failMsg>>
       \/ \* an exception that is not a CloudError
          /\ getOutcome' = "exception"
          /\ lastCall' = Call("get", "exception")
          /\ crash
          /\ UNCHANGED <<redis_cache, to_update>>
    /\ UNCHANGED <<check_mode, state, desired, results, count, remote, nPoll, nSleep,
                   nCreate, nDelete, createParams, waited, invocations, prev,
                   mutated, slept>>

\* which branch of the "if self.check_mode" block returns
CheckModeBranch ==
    IF state = "absent" /\ to_update THEN "delete"
    ELSE IF state = "present" /\ to_update THEN "update"
    ELSE IF state = "present" THEN "create"
    ELSE "none"

\* the check_mode block returns self.results
CheckModeReturns == check_mode /\ CheckModeBranch # "none"

\* the delete test with the existence flag inverted
NeedsDelete_Inverted == state = "absent" /\ to_update = FALSE

\* "if self.state == 'absent' and self.to_update == True"
NeedsDelete == state = "absent" /\ to_update = TRUE

\* "if self.state == 'present' and self.to_update == True"
NeedsUpdate == state = "present" /\ to_update = TRUE

\* the wait loop polls once before it looks at what create returned
WaitLoopContinues_PollsFirst(cache) ==
    cache.rpc = "create" \/ ~(cache.provisioning_state = "Succeeded")

\* the wait loop also stops on a failed provisioning
WaitLoopContinues_StopsOnFailed(cache) ==
    cache.provisioning_state \notin {"Succeeded", "Failed"}

\* "while not self.redis_cache.provisioning_state=='Succeeded'"
WaitLoopContinues(cache) == ~(cache.provisioning_state = "Succeeded")

\* the cache the provider holds once a create call has been accepted
Created(params, s) == [exists |-> TRUE, provisioning_state |-> s, params |-> params]

\* the check_mode block, when one of its branches returns
CheckMode ==
    /\ pc = "fetched"
    /\ CheckModeReturns
    /\ results' =
         CASE CheckModeBranch = "delete" ->
                [results EXCEPT !.changed = "True", !.state = "absent"]
           [] CheckModeBranch = "update" ->
                [results EXCEPT !.changed = "True", !.state = "present"]
           [] OTHER ->
                [results EXCEPT !.changed = "False", !.state = "present",
                                !.name = "cache1"]
    /\ pc' = "done"
    /\ UNCHANGED <<check_mode, state, desired, to_update, redis_cache, count, remote,
                   getOutcome, nGet, nPoll, nSleep, nCreate, nDelete, createParams,
                   waited, failMsg, invocations, prev, lastCall, mutated, slept>>

\* the delete path with a failed delete call issued a second time
Delete_Retry ==
    /\ pc = "fetched"
    /\ ~CheckModeReturns
    /\ NeedsDelete
    /\ \/ /\ nDelete' = nDelete + 1
          /\ remote' = NoResource
          /\ lastCall' = Call("delete", "ok")
          /\ mutated' = TRUE
          /\ results' = [results EXCEPT !.changed = "True", !.state = "absent"]
          /\ pc' = "done"
          /\ UNCHANGED failMsg
       \/ /\ nDelete' = nDelete + 2
          /\ lastCall' = Call("delete", "clouderror")
          /\ fail("Failed with")
          /\ UNCHANGED <<remote, results, mutated>>
       \/ /\ nDelete' = nDelete + 1
          /\ lastCall' = Call("delete", "exception")
          /\ crash
          /\ UNCHANGED <<remote, results, mutated>>
    /\ UNCHANGED <<check_mode, state, desired, to_update, redis_cache, count,
                   getOutcome, nGet, nPoll, nSleep, nCreate, createParams,
                   waited, invocations, prev, slept>>

\* the delete path with a CloudError of the delete call ignored
Delete_IgnoresError ==
    /\ pc = "fetched"
    /\ ~CheckModeReturns
    /\ NeedsDelete
    /\ nDelete' = nDelete + 1
    /\ \/ /\ remote' = NoResource
          /\ lastCall' = Call("delete", "ok")
          /\ mutated' = TRUE
          /\ results' = [results EXCEPT !.changed = "True", !.state = "absent"]
          /\ pc' = "done"
          /\ UNCHANGED failMsg
       \/ /\ lastCall' = Call("delete", "clouderror")
          /\ results' = [results EXCEPT !.changed = "True", !.state = "absent"]
          /\ pc' = "done"
          /\ UNCHANGED <<remote, mutated, failMsg>>
       \/ /\ lastCall' = Call("delete", "exception")
          /\ crash
          /\ UNCHANGED <<remote, results, mutated>>
    /\ UNCHANGED <<check_mode, state, desired, to_update, redis_cache, count,
                   getOutcome, nGet, nPoll, nSleep, nCreate, createParams,
                   waited, invocations, prev, slept>>

\* the delete path followed by a call of check_resource_created
Delete_ThenWaits ==
    /\ pc = "fetched"
    /\ ~CheckModeReturns
    /\ NeedsDelete
    /\ nDelete' = nDelete + 1
    /\ \/ /\ remote' = NoResource
          /\ lastCall' = Call("delete", "ok")
          /\ mutated' = TRUE
          /\ waited' = TRUE
          /\ pc' = "wait"
          /\ UNCHANGED <<failMsg, results>>
       \/ /\ lastCall' = Call("delete", "clouderror")
          /\ fail("Failed with")
          /\ UNCHANGED <<remote, results, mutated, waited>>
       \/ /\ lastCall' = Call("delete", "exception")
          /\ crash
          /\ UNCHANGED <<remote, results, mutated, waited>>
    /\ UNCHANGED <<check_mode, state, desired, to_update, redis_cache, count,
                   getOutcome, nGet, nPoll, nSleep, nCreate, createParams,
                   invocations, prev, slept>>

\* "Check if the resource needs to be deleted": redis.delete and get_poller_result
Delete ==
    /\ pc = "fetched"
    /\ ~CheckModeReturns
    /\ NeedsDelete
    /\ nDelete' = nDelete + 1
    /\ \/ /\ remote' = NoResource
          /\ lastCall' = Call("delete", "ok")
          /\ mutated' = TRUE
          /\ results' = [results EXCEPT !.changed = "True", !.state = "absent"]
          /\ pc' = "done"
          /\ UNCHANGED failMsg
       \/ /\ lastCall' = Call("delete", "clouderror")
          /\ fail("Failed with")
          /\ UNCHANGED <<remote, results, mutated>>
       \/ /\ lastCall' = Call("delete", "exception")
          /\ crash
          /\ UNCHANGED <<remote, results, mutated>>
    /\ UNCHANGED <<check_mode, state, desired, to_update, redis_cache, count,
                   getOutcome, nGet, nPoll, nSleep, nCreate, createParams,
                   waited, invocations, prev, slept>>

\* the update path with populate_results called before the create call
Update_PopulatesFirst ==
    /\ pc = "fetched"
    /\ ~CheckModeReturns
    /\ ~NeedsDelete
    /\ NeedsUpdate
    /\ nCreate' = nCreate + 1
    /\ createParams' = RedisCreateParameters(desired)
    /\ \/ \E s \in ProvStates :
            /\ remote' = Created(RedisCreateParameters(desired), s)
            /\ redis_cache' = Resource(remote', "create")
            /\ lastCall' = Call("create", "ok")
            /\ mutated' = TRUE
            /\ results' = populate_results(
                              [results EXCEPT !.changed = "True", !.state = "present"],
                              redis_cache)
            /\ pc' = "done"
            /\ UNCHANGED failMsg
       \/ /\ lastCall' = Call("create", "clouderror")
          /\ fail("Failed with")
          /\ UNCHANGED <<remote, redis_cache, results, mutated>>
       \/ /\ lastCall' = Call("create", "exception")
          /\ crash
          /\ UNCHANGED <<remote, redis_cache, results, mutated>>
    /\ UNCHANGED <<check_mode, state, desired, to_update, count, getOutcome, nGet,
                   nPoll, nSleep, nDelete, waited, invocations, prev, slept>>

\* "do an update of the redis resource": redis.create(...).result(), then return
Update ==
    /\ pc = "fetched"
    /\ ~CheckModeReturns
    /\ ~NeedsDelete
    /\ NeedsUpdate
    /\ nCreate' = nCreate + 1
    /\ createParams' = RedisCreateParameters(desired)
    /\ \/ \E s \in ProvStates :
            /\ remote' = Created(RedisCreateParameters(desired), s)
            /\ redis_cache' = Resource(remote', "create")
            /\ lastCall' = Call("create", "ok")
            /\ mutated' = TRUE
            /\ results' = populate_results(
                              [results EXCEPT !.changed = "True", !.state = "present"],
                              redis_cache')
            /\ pc' = "done"
            /\ UNCHANGED failMsg
       \/ /\ lastCall' = Call("create", "clouderror")
          /\ fail("Failed with")
          /\ UNCHANGED <<remote, redis_cache, results, mutated>>
       \/ /\ lastCall' = Call("create", "exception")
          /\ crash
          /\ UNCHANGED <<remote, redis_cache, results, mutated>>
    /\ UNCHANGED <<check_mode, state, desired, to_update, count, getOutcome, nGet,
                   nPoll, nSleep, nDelete, waited, invocations, prev, slept>>

\* the create path with a CloudError of the create call logged and not failed on
Create_SwallowsError ==
    /\ pc = "fetched"
    /\ ~CheckModeReturns
    /\ ~NeedsDelete
    /\ ~NeedsUpdate
    /\ nCreate' = nCreate + 1
    /\ createParams' = RedisCreateParameters(desired)
    /\ \/ \E s \in ProvStates :
            /\ remote' = Created(RedisCreateParameters(desired), s)
            /\ redis_cache' = Resource(remote', "create")
            /\ lastCall' = Call("create", "ok")
            /\ mutated' = TRUE
            /\ waited' = TRUE
            /\ count' = 0
            /\ pc' = "wait"
            /\ UNCHANGED <<failMsg, results>>
       \/ /\ lastCall' = Call("create", "clouderror")
          /\ results' = [results EXCEPT !.changed = "True", !.state = "present"]
          /\ pc' = "done"
          /\ UNCHANGED <<remote, redis_cache, waited, count, mutated, failMsg>>
       \/ /\ lastCall' = Call("create", "exception")
          /\ crash
          /\ UNCHANGED <<remote, redis_cache, waited, count, mutated, results>>
    /\ UNCHANGED <<check_mode, state, desired, to_update, getOutcome, nGet,
                   nPoll, nSleep, nDelete, invocations, prev, slept>>

\* "Create the resource": redis.create(...).result(), then check_resource_created is entered
Create ==
    /\ pc = "fetched"
    /\ ~CheckModeReturns
    /\ ~NeedsDelete
    /\ ~NeedsUpdate
    /\ nCreate' = nCreate + 1
    /\ createParams' = RedisCreateParameters(desired)
    /\ \/ \E s \in ProvStates :
            /\ remote' = Created(RedisCreateParameters(desired), s)
            /\ redis_cache' = Resource(remote', "create")
            /\ lastCall' = Call("create", "ok")
            /\ mutated' = TRUE
            /\ waited' = TRUE
            /\ count' = 0
            /\ pc' = "wait"
            /\ UNCHANGED failMsg
       \/ /\ lastCall' = Call("create", "clouderror")
          /\ fail("Failed with")
          /\ UNCHANGED <<remote, redis_cache, waited, count, mutated>>
       \/ /\ lastCall' = Call("create", "exception")
          /\ crash
          /\ UNCHANGED <<remote, redis_cache, waited, count, mutated>>
    /\ UNCHANGED <<check_mode, state, desired, to_update, results, getOutcome, nGet,
                   nPoll, nSleep, nDelete, invocations, prev, slept>>

\* the wait loop with a CloudError of the get logged and the loop continued
PollGet_SwallowsError ==
    /\ pc = "wait"
    /\ WaitLoopContinues(redis_cache)
    /\ nSleep' = nSleep + 1
    /\ slept' = slept + delay
    /\ count' = count + 1
    /\ nPoll' = nPoll + 1
    /\ \/ \E s \in ProvNext(remote.provisioning_state) :
            /\ remote' = [remote EXCEPT !.provisioning_state = s]
            /\ redis_cache' = Resource(remote', "poll")
            /\ lastCall' = Call("poll", "ok")
            /\ IF count' = PollCap
               THEN /\ results' = populate_results(results, redis_cache')
                    /\ fail("Waited too long")
               ELSE /\ UNCHANGED <<results, pc, failMsg>>
       \/ /\ lastCall' = Call("poll", "clouderror")
          /\ IF count' = PollCap
             THEN fail("Waited too long")
             ELSE UNCHANGED <<pc, failMsg>>
          /\ UNCHANGED <<remote, redis_cache, results>>
       \/ /\ lastCall' = Call("poll", "exception")
          /\ crash
          /\ UNCHANGED <<remote, redis_cache, results>>
    /\ UNCHANGED <<check_mode, state, desired, to_update, getOutcome, nGet, nCreate,
                   nDelete, createParams, waited, invocations, prev, mutated>>

\* one round of the loop of check_resource_created: sleep, count, get, cap test;
\* at the cap it returns False and exec_module fails with 'Waited too long'
PollGet ==
    /\ pc = "wait"
    /\ WaitLoopContinues(redis_cache)
    /\ nSleep' = nSleep + 1
    /\ slept' = slept + delay
    /\ count' = count + 1
    /\ nPoll' = nPoll + 1
    /\ \/ \E s \in ProvNext(remote.provisioning_state) :
            /\ remote' = [remote EXCEPT !.provisioning_state = s]
            /\ redis_cache' = Resource(remote', "poll")
            /\ lastCall' = Call("poll", "ok")
            /\ IF count' = PollCap
               THEN /\ results' = populate_results(results, redis_cache')
                    /\ fail("Waited too long")
               ELSE /\ UNCHANGED <<results, pc, failMsg>>
       \/ \* CloudError raised by the get: re-raised, caught by exec_module
          /\ lastCall' = Call("poll", "clouderror")
          /\ fail("Failed with")
          /\ UNCHANGED <<remote, redis_cache, results>>
       \/ /\ lastCall' = Call("poll", "exception")
          /\ crash
          /\ UNCHANGED <<remote, redis_cache, results>>
    /\ UNCHANGED <<check_mode, state, desired, to_update, getOutcome, nGet, nCreate,
                   nDelete, createParams, waited, invocations, prev, mutated>>

\* check_resource_created returns True; exec_module fills the result and returns it
CreateReturn ==
    /\ pc = "wait"
    /\ ~WaitLoopContinues(redis_cache)
    /\ results' = populate_results(
                      [results EXCEPT !.changed = "True", !.state = "present"],
                      redis_cache)
    /\ pc' = "done"
    /\ UNCHANGED <<check_mode, state, desired, to_update, redis_cache, count, remote,
                   getOutcome, nGet, nPoll, nSleep, nCreate, nDelete, createParams,
                   waited, failMsg, invocations, prev, lastCall, mutated, slept>>

Next ==
    \/ \E cm \in BOOLEAN, st \in {"present", "absent"}, d \in DesiredSpecs :
          ExecModule(cm, st, d)
    \/ FetchExisting
    \/ CheckMode
    \/ Delete
    \/ Update
    \/ Create
    \/ PollGet
    \/ CreateReturn

Spec == Init /\ [][Next]_vars

\* a step of the running invocation: a call that returns or raises, or a return
InvocationStep ==
    FetchExisting \/ CheckMode \/ Delete \/ Update \/ Create \/ PollGet \/ CreateReturn

\* one module run: exec_module is entered once, on a fresh AzureRMRedisCache
RunNext ==
    \/ \E cm \in BOOLEAN, st \in {"present", "absent"}, d \in DesiredSpecs :
          pc = "idle" /\ ExecModule(cm, st, d)
    \/ FetchExisting
    \/ CheckMode
    \/ Delete
    \/ Update
    \/ Create
    \/ PollGet
    \/ CreateReturn

\* every call to the provider returns or fails, so a started run goes on
FairSpec == Init /\ [][RunNext]_vars /\ WF_vars(InvocationStep)

TypeOK ==
    /\ pc \in {"idle", "fetch", "fetched", "wait"} \cup Terminal
    /\ count \in 0..PollCap
    /\ nCreate \in 0..1 /\ nDelete \in 0..1

----------------------------------------------------------------------------
\* C1: an invocation (check mode or not) with state 'absent' whose initial get
\* reports the cache as not found issues no create and no delete call and
\* returns changed = False, state = 'absent'.
C1_AbsentNotFoundIsNoop ==
    (state = "absent" /\ getOutcome = "notfound") =>
        /\ nCreate = 0
        /\ nDelete = 0
        /\ pc \in Terminal =>
              /\ pc = "done"
              /\ results.changed = "False"
              /\ results.state = "absent"

\* C2: a check-mode invocation issues no create and no delete call in any
\* branch; its only call to the provider is the initial get.
C2_CheckModeNeverMutates ==
    check_mode => (nCreate = 0 /\ nDelete = 0 /\ nPoll = 0 /\ nGet <= 1)

\* C3: for the same desired spec and the same outcome of the initial get
\* (found / not found), a check-mode invocation returns the changed value
\* that a successful invocation without check mode returns.
C3_CheckModeChangedMatches ==
    ( /\ pc = "done" /\ prev.pc = "done"
      /\ prev.check_mode # check_mode
      /\ prev.state = state /\ prev.desired = desired
      /\ prev.getOutcome = getOutcome
      /\ getOutcome \in {"found", "notfound"} )
    => results.changed = prev.changed

\* C4: without check mode, state 'present' and an existing cache (update
\* path): exactly one create call, then the provisioning wait (polling until
\* Succeeded or the attempt cap), and only then the result
\* {changed: True, state: present, snapshot}.
C4_UpdateCreatesThenWaits ==
    (pc = "done" /\ ~check_mode /\ state = "present" /\ getOutcome = "found") =>
        /\ nCreate = 1
        /\ waited
        /\ redis_cache.provisioning_state = "Succeeded" \/ nPoll = 180
        /\ results.changed = "True"
        /\ results.state = "present"

\* C5: without check mode, state 'present' and a cache that is not found:
\* exactly one create call is issued, the provisioning wait follows it, and
\* when the wait succeeds the result is {changed: True, state: present} with
\* a snapshot whose provisioning state is Succeeded.
C5_CreateThenWait ==
    (~check_mode /\ state = "present" /\ getOutcome = "notfound") =>
        /\ nDelete = 0
        /\ nCreate <= 1
        /\ (waited \/ nPoll > 0) => nCreate = 1
        /\ pc \in {"wait"} \cup Terminal => nCreate = 1
        /\ pc = "done" =>
              /\ waited
              /\ results.changed = "True"
              /\ results.state = "present"
              /\ results.provisioning_state = "Succeeded"
              /\ results.snapshot_rpc \in {"create", "poll"}

C5_Witness ==
    /\ pc = "done" /\ ~check_mode /\ state = "present" /\ getOutcome = "notfound"
    /\ nCreate = 1 /\ nPoll = 3
    /\ results.provisioning_state = "Succeeded"

\* C6: without check mode, state 'absent' and an existing cache: exactly one
\* delete call and no create call are issued, and when the delete completes
\* the result is {changed: True, state: absent}.
C6_DeleteExisting ==
    (~check_mode /\ state = "absent" /\ getOutcome = "found") =>
        /\ nCreate = 0
        /\ nPoll = 0
        /\ nDelete <= 1
        /\ pc \in Terminal => nDelete = 1
        /\ pc = "done" => (results.changed = "True" /\ results.state = "absent")

C6_Witness ==
    /\ pc = "done" /\ ~check_mode /\ state = "absent" /\ getOutcome = "found"
    /\ nDelete = 1 /\ results.changed = "True" /\ ~remote.exists

\* C7: for every K with 0 <= K < 180, when the first K get calls of the wait
\* loop report Running and call K+1 reports Succeeded, check_resource_created
\* makes exactly K+1 get calls and the invocation succeeds (no timeout).
C7_SucceededWithinCapReturns ==
    \A K \in 0..179 :
        ( /\ pc \in Terminal /\ waited
          /\ nPoll = K + 1
          /\ redis_cache.rpc = "poll"
          /\ redis_cache.provisioning_state = "Succeeded" )
        => (pc = "done" /\ failMsg = "none" /\ results.changed = "True")

\* C8: when no get call of the wait loop ever reports Succeeded (and none
\* fails), the loop stops after exactly 180 polls and the invocation ends in
\* the timeout failure, which differs from the remote-call failure; no
\* successful result is returned.
C8_TimeoutAfterCap ==
    /\ nPoll <= 180
    /\ (pc = "wait" /\ redis_cache.provisioning_state # "Succeeded") => nPoll < 180
    /\ (nPoll = 180 /\ failMsg \notin {"Failed with", "exception"}) =>
          (pc = "failed" /\ failMsg = "Waited too long")
    /\ failMsg = "Waited too long" =>
          (pc = "failed" /\ nPoll = 180 /\ nSleep = 180 /\ results.changed # "True")
    /\ (pc = "done" /\ waited) => redis_cache.provisioning_state = "Succeeded"

C8_Witness ==
    /\ pc = "failed" /\ failMsg = "Waited too long"
    /\ nPoll = 180
    /\ redis_cache.provisioning_state = "Running"

\* C9: an invocation issues at most one mutating call (create and delete
\* counted together) on every path: success, remote-call failure, timeout
\* and check mode.
C9_AtMostOneMutatingCall ==
    nCreate + nDelete <= 1

C9_Witness ==
    /\ pc = "failed" /\ failMsg = "Failed with"
    /\ nCreate + nDelete = 1
    /\ nPoll > 0

\* C10: when the initial get fails with an error other than 'not found', the
\* invocation ends in a terminal failure: no create or delete call is issued
\* and the failure is not handled as the not-found branch.
C10_FetchErrorIsTerminal ==
    getOutcome \in {"clouderror", "exception"} =>
        /\ nCreate = 0
        /\ nDelete = 0
        /\ pc # "done"

\* C11: every create call (create path and update path) carries the full
\* desired spec: redis_configuration, enable_non_ssl_port, shard_count,
\* subnet_id and static_ip sent to the provider equal the module arguments,
\* along with location, tags and sku.
C11_CreateCarriesFullSpec ==
    nCreate > 0 =>
        /\ createParams.location = desired.location
        /\ createParams.sku = desired.sku
        /\ createParams.tags = desired.tags
        /\ createParams.redis_configuration = desired.redis_configuration
        /\ createParams.enable_non_ssl_port = desired.enable_nonssl_port
        /\ createParams.shard_count = desired.shard_count
        /\ createParams.subnet_id = desired.subnet_id
        /\ createParams.static_ip = desired.static_ip

\* C12: running exec_module twice in succession with the same arguments
\* (no check mode, every call succeeding) leaves the cache in the same
\* existence and configuration as running it once; after 'absent' has
\* removed a cache, a second 'absent' run leaves it absent.
C12_SecondRunChangesNothing ==
    ( /\ pc = "done" /\ prev.pc = "done"
      /\ ~check_mode /\ ~prev.check_mode
      /\ prev.state = state /\ prev.desired = desired )
    => /\ remote.exists = prev.remote_exists
       /\ remote.params = prev.remote_params

\* C13: whenever the returned result carries a snapshot, the snapshot is the
\* cache as observed after the mutating call and after the wait loop ended
\* (the create result, or the last poll get, also on timeout), never the
\* cache fetched by the initial get.
C13_SnapshotIsPostMutation ==
    results.snapshot_rpc # "none" =>
        /\ results.snapshot_rpc \in {"create", "poll"}
        /\ pc \in {"done", "failed"}
        /\ nCreate = 1 /\ mutated
        /\ results.snapshot_rpc = redis_cache.rpc
        /\ results.provisioning_state = redis_cache.provisioning_state
        /\ results.location = redis_cache.params.location
        /\ results.tags = redis_cache.params.tags
        /\ results.sku = redis_cache.params.sku
        /\ results.provisioning_state = remote.provisioning_state
        /\ results.location = remote.params.location
        /\ results.snapshot_rpc = "create" => nPoll = 0
        /\ results.snapshot_rpc = "poll" => (nPoll >= 1 /\ lastCall = Call("poll", "ok"))

\* an update whose result differs from what the initial get had fetched
C13_Witness ==
    /\ pc = "done" /\ ~check_mode /\ state = "present" /\ getOutcome = "found"
    /\ results.snapshot_rpc = "create"
    /\ results.location = "westus"
    /\ prev.pc = "done" /\ prev.remote_exists /\ prev.remote_params.location = "eastus"

\* the invocation makes no call, sleeps no more and keeps its outcome
InvocationFrozen ==
    UNCHANGED <<pc, nGet, nPoll, nSleep, slept, nCreate, nDelete, results, failMsg>>

\* a get call of the wait loop has just failed
PollFailed == lastCall.op = "poll" /\ lastCall.outcome # "ok"

\* a create or delete call has just failed
MutationFailed == lastCall.op \in {"create", "delete"} /\ lastCall.outcome # "ok"

\* C14: a failure of a get call during the provisioning wait ends the
\* invocation at once in a terminal failure: after the failing poll there is
\* no further get, sleep or mutating call and no successful result.
C14_PollFailureIsTerminal ==
    /\ [](PollFailed =>
            /\ pc \in {"failed", "crashed"}
            /\ failMsg \in {"Failed with", "exception"}
            /\ lastCall.outcome = "clouderror" <=> (pc = "failed" /\ failMsg = "Failed with")
            /\ results.changed # "True"
            /\ results.state # "present"
            /\ nCreate = 1 /\ nDelete = 0)
    /\ [][PollFailed => (InvocationFrozen \/ invocations' = invocations + 1)]_vars

C14_Witness ==
    /\ lastCall = Call("poll", "clouderror")
    /\ pc = "failed" /\ failMsg = "Failed with"
    /\ nPoll = 3 /\ waited

\* C15: a failed create or delete call is not retried: the invocation ends in
\* a terminal failure, makes no further call (no second mutating call, no
\* poll get) and never returns a result with changed = True.
C15_FailedMutationNotRetried ==
    /\ [](MutationFailed =>
            /\ pc \in {"failed", "crashed"}
            /\ failMsg \in {"Failed with", "exception"}
            /\ results.changed # "True"
            /\ nCreate + nDelete = 1
            /\ nPoll = 0 /\ nSleep = 0
            /\ ~mutated)
    /\ [][MutationFailed => (InvocationFrozen \/ invocations' = invocations + 1)]_vars

C15_Witness ==
    /\ lastCall = Call("create", "clouderror")
    /\ pc = "failed" /\ failMsg = "Failed with"
    /\ getOutcome = "found" /\ state = "present" /\ nCreate = 1

\* C16: every invocation runs START -> FETCH_CURRENT -> one of {no-op,
\* delete, create-or-update} -> DONE or ERROR: the initial get is the first
\* call and has completed before any create or delete, poll gets occur only
\* after a create and never after a delete or a no-op, and no call is made
\* after the result is returned.
C16_CallOrder ==
    /\ [](/\ nGet <= 1
          /\ pc = "fetch" => (nGet + nCreate + nDelete + nPoll = 0)
          /\ (nCreate + nDelete + nPoll > 0) =>
                (nGet = 1 /\ getOutcome \in {"found", "notfound", "clouderror"})
          /\ lastCall.op = "get" => (nCreate + nDelete + nPoll = 0)
          /\ (nPoll > 0 \/ waited) => (nCreate = 1 /\ nDelete = 0 /\ mutated)
          /\ nDelete > 0 => (~waited /\ nPoll = 0 /\ nSleep = 0)
          /\ (nCreate + nDelete = 0) => (~waited /\ nPoll = 0 /\ nSleep = 0))
    /\ [][ /\ pc = "fetch" => pc' \in {"fetch", "fetched", "crashed"}
           /\ pc = "fetched" => pc' \in {"fetched", "wait"} \cup Terminal
           /\ pc = "wait" => pc' \in {"wait"} \cup Terminal
           /\ pc \in Terminal => (InvocationFrozen \/ invocations' = invocations + 1)
           /\ nPoll' > nPoll => lastCall.op \in {"create", "poll"} ]_vars

C16_Witness ==
    /\ invocations = 2 /\ prev.pc = "done"
    /\ pc = "done" /\ state = "absent" /\ getOutcome = "found"
    /\ nGet = 1 /\ nDelete = 1 /\ nPoll = 0

\* C17: every invocation terminates when each call returns or fails: it
\* makes at most 1 initial get, 1 mutating call and 180 poll gets before it
\* reaches DONE or ERROR.
C17_Terminates ==
    /\ [](/\ nGet <= 1
          /\ nCreate + nDelete <= 1
          /\ nPoll <= 180
          /\ count <= 180)
    /\ (pc \in {"fetch", "fetched", "wait"}) ~> (pc \in Terminal)

C17_Witness ==
    /\ pc = "failed" /\ failMsg = "Waited too long"
    /\ nGet = 1 /\ nCreate = 1 /\ nPoll = 180
    /\ redis_cache.provisioning_state = "Failed"

\* C18: the wait looks at what the create call returned first: when create
\* already reports Succeeded it makes no get call and no sleep; otherwise
\* each poll get comes right after exactly one sleep of 10, so the number of
\* sleeps equals the number of poll gets.
C18_SleepBeforeEachPoll ==
    /\ [](/\ nSleep = nPoll
          /\ slept = 10 * nPoll
          /\ waited => count = nPoll
          /\ (pc = "done" /\ waited /\ results.snapshot_rpc = "create") =>
                (nPoll = 0 /\ nSleep = 0 /\ slept = 0)
          /\ (pc = "done" /\ waited /\ nPoll = 0) => results.snapshot_rpc = "create")
    /\ [][ /\ (pc = "wait" /\ redis_cache.provisioning_state = "Succeeded") =>
                (nPoll' = nPoll /\ nSleep' = nSleep /\ slept' = slept)
           /\ nPoll' = nPoll + 1 =>
                (nSleep' = nSleep + 1 /\ slept' = slept + 10 /\ pc = "wait") ]_vars

C18_Witness ==
    /\ pc = "done" /\ waited
    /\ nPoll = 2 /\ nSleep = 2 /\ slept = 20
    /\ results.snapshot_rpc = "poll"

\* C19: without check mode, a result with changed = True is returned only
\* after a create or delete call was issued and completed in that invocation,
\* and a result with state = present only when the last observed cache
\* exists (create returned a resource).
C19_ChangedOnlyAfterMutation ==
    ~check_mode =>
        /\ results.changed = "True" =>
              (pc = "done" /\ mutated /\ nCreate + nDelete = 1)
        /\ results.state = "present" =>
              /\ pc = "done" /\ mutated /\ nCreate = 1
              /\ redis_cache.exists
              /\ redis_cache.rpc \in {"create", "poll"}
              /\ remote.exists
        /\ (pc = "done" /\ results.state = "absent") => (nDelete = 1 /\ ~remote.exists)

C19_Witness ==
    /\ pc = "done" /\ ~check_mode /\ getOutcome = "clouderror"
    /\ results.changed = "True" /\ results.state = "present"
    /\ mutated /\ redis_cache.exists /\ nPoll = 1

====
